---- MODULE Spec2Model ----
(***************************************************************************)
(* Model of the hybrid response gateway of the visual chatbot backend:     *)
(* routers/chat.py (chat_endpoint) with the layers it calls in             *)
(* services/validation.py, services/vision.py, services/memory.py,         *)
(* services/llm.py and database.py.                                        *)
(*                                                                         *)
(* A request runs on the asyncio event loop, so the code between two       *)
(* suspension points is one atomic step.  The handler suspends in          *)
(* validate_image (await file.read()) and in generate_response (await      *)
(* client.post(), once per candidate model); everything else, including    *)
(* vision analysis, prompt construction, the memory update and the save to *)
(* sqlite, runs without yielding.                                          *)
(*                                                                         *)
(* Strings the code inspects character by character (the query, object     *)
(* labels) are sequences of one-character strings; "NUL" stands for the    *)
(* null byte.  A dict that may lack keys is a record with a field `keys`   *)
(* naming the keys present.                                                *)
(***************************************************************************)
EXTENDS Integers, Sequences, FiniteSets, TLC

\* ------------------------------------------------------------------ bounds

\* Requests submitted in one behaviour.
MaxRequests == 2

\* Request slots: handler invocations that may be in flight at once.
NumSlots == 2

Slots == 1..NumSlots

\* ------------------------------------------------------------- input sets

\* The ids uuid4 hands out, in the order of the requests.
Uuids == <<"uuid-1", "uuid-2", "uuid-3", "uuid-4", "uuid-5">>

SessionIds == {"s1"} \cup {Uuids[i] : i \in 1..Len(Uuids)}

\* Raw query strings.
CarQuery == <<" ", "C", "a", "r", " ">>

HiQuery == <<"h", "NUL", "i">>

\* Bytes of a file or of a decoded preview: length and, when they are an
\* image PIL can open, which image.  img = "none": not an image.
Bytes(len, img) == [len |-> len, img |-> img]

NoBytes == Bytes(0, "none")

ALLOWED_IMAGE_TYPES == {"image/jpeg", "image/jpg", "image/png", "image/webp"}

MAX_FILE_SIZE == 10 * 1024 * 1024

\* UploadFile values: <<>> is no upload, <<u>> an upload.
FileA == << [content_type |-> "image/png", data |-> Bytes(1024, "A")] >>

FileB == << [content_type |-> "image/jpeg", data |-> Bytes(2048, "B")] >>

BadFiles ==
    { << [content_type |-> "text/plain", data |-> Bytes(1024, "A")] >>,
      << [content_type |-> "image/png",  data |-> Bytes(MAX_FILE_SIZE + 1, "A")] >>,
      << [content_type |-> "image/png",  data |-> NoBytes] >>,
      << [content_type |-> "image/png",  data |-> Bytes(5, "none")] >> }

\* image_preview form field, as the pieces split(",", 1) sees: <<>> is None,
\* a string without a comma is one piece, a data URL is header, ",", payload.
PreviewA == <<"data:image/png;base64", ",", "b64(A)">>

BadPreviews ==
    { <<"not-a-data-url">>,
      <<"data:image/png;base64", ",", "!!!!">>,
      <<"data:image/png;base64", ",", "abc">>,
      <<"data:text/plain;base64", ",", "aGVsbG8=">> }

\* The form fields of a request.  session_id and user_id: "" stands for None.
\* mode: "standard" is the endpoint's default.
Form(session_id, query, mode, user_id, image, image_preview) ==
    [session_id |-> session_id, query |-> query, mode |-> mode, user_id |-> user_id,
     image |-> image, image_preview |-> image_preview]

ModeInputs == {"", "NONE", "standard", "MODE 1: STORYTELLING"}

\* The requests of the model: conversation turns in every mode, on the known
\* session and on a new one; image uploads with the mode set and unset;
\* authenticated turns of two callers; rejected files; previews, good and
\* malformed.
Requests ==
    {Form(sid, q, m, "", <<>>, <<>>) :
        sid \in {"s1", ""}, q \in {CarQuery, HiQuery}, m \in ModeInputs}
    \cup {Form(sid, CarQuery, m, "", f, <<>>) :
        sid \in {"s1", ""}, m \in {"", "standard"}, f \in {FileA, FileB}}
    \cup {Form("s1", CarQuery, "standard", "u1", f, <<>>) : f \in {<<>>, FileA}}
    \cup {Form("s1", CarQuery, "standard", "", f, <<>>) : f \in BadFiles}
    \cup {Form("s1", CarQuery, "standard", "", <<>>, p) : p \in BadPreviews \cup {PreviewA}}
    \cup {Form("s1", HiQuery, "standard", "u1", FileB, PreviewA)}
    \cup {Form("s1", HiQuery, "standard", "u2", <<>>, <<>>)}

\* ------------------------------------------------- services/validation.py

Whitespace == {" ", "\n", "\t"}

RECURSIVE lstrip(_)
lstrip(s) == IF s # <<>> /\ Head(s) \in Whitespace THEN lstrip(Tail(s)) ELSE s

RECURSIVE rstrip(_)
rstrip(s) ==
    IF s # <<>> /\ s[Len(s)] \in Whitespace
    THEN rstrip(SubSeq(s, 1, Len(s) - 1))
    ELSE s

strip(s) == rstrip(lstrip(s))

max_length == 2000

sanitize_text(text) ==
    IF text = <<>> THEN <<>>
    ELSE LET stripped == strip(text)
             capped == IF Len(stripped) > max_length
                       THEN SubSeq(stripped, 1, max_length)
                       ELSE stripped
         IN  SelectSeq(capped, LAMBDA c : c # "NUL")

\* The result of validate_image up to its await: [ok, status_code].
validate_content_type(file) ==
    IF file.content_type \notin ALLOWED_IMAGE_TYPES
    THEN [ok |-> FALSE, status_code |-> 400]
    ELSE [ok |-> TRUE, status_code |-> 200]

\* validate_image after file.read() returned image_data.
validate_image(file) ==
    IF ~validate_content_type(file).ok THEN [ok |-> FALSE, status_code |-> 400, data |-> NoBytes]
    ELSE IF file.data.len > MAX_FILE_SIZE THEN [ok |-> FALSE, status_code |-> 400, data |-> NoBytes]
    ELSE IF file.data.len = 0 THEN [ok |-> FALSE, status_code |-> 400, data |-> NoBytes]
    ELSE [ok |-> TRUE, status_code |-> 200, data |-> file.data]

get_or_create_session_id(session_id, uuid) ==
    IF session_id # "" THEN session_id ELSE uuid

\* ----------------------------------------------------- services/vision.py

\* ImagePreProcessingLayer.process: the opened RGB image, or ValueError.
process(image_data) ==
    IF image_data.img = "none"
    THEN [ok |-> FALSE, image |-> "none"]
    ELSE [ok |-> TRUE, image |-> image_data.img]

AllVisionKeys ==
    {"analysis_mode", "scene_description", "detected_objects", "bounding_boxes",
     "text_detected", "risk_assessment", "spatial_metrics", "confidence_note"}

\* The empty dict {} a new session starts with.
EmptyVision ==
    [keys |-> {}, analysis_mode |-> "", scene_description |-> "",
     detected_objects |-> <<>>, text_detected |-> <<>>, risk_assessment |-> "",
     confidence_note |-> ""]

car == <<"c", "a", "r">>

\* LocalVisionEngine.analyze_image on the two images of the model: image A
\* shows one car, image B shows nothing the detector knows.
analyze_image(image) ==
    [keys |-> AllVisionKeys,
     analysis_mode |-> "Offline Local AI",
     scene_description |-> IF image = "A" THEN "a red car on a street" ELSE "an empty room",
     detected_objects |-> IF image = "A" THEN << <<car, 1>> >> ELSE <<>>,
     text_detected |-> IF image = "A" THEN <<"STOP">> ELSE <<"No readable text detected">>,
     risk_assessment |-> "Standard environment. No high-risk anomalies detected.",
     confidence_note |-> "Analysis performed using YOLOv8 + BLIP + EasyOCR"]

\* The context VisionProcessingLayer.analyze returns when the pipeline raises.
FailsafeVision ==
    [keys |-> {"analysis_mode", "scene_description", "detected_objects",
               "text_detected", "confidence_note"},
     analysis_mode |-> "Offline Local AI (Failsafe)",
     scene_description |-> "Scene analysis unavailable.",
     detected_objects |-> <<>>,
     text_detected |-> <<"Error during local processing">>,
     risk_assessment |-> "",
     confidence_note |-> "Failsafe mode triggered"]

\* VisionProcessingLayer.analyze once the engine exists.
analyze(image, pipeline_ok) ==
    IF pipeline_ok THEN analyze_image(image) ELSE FailsafeVision

\* ----------------------------------------------------- services/memory.py

NewSession == [history |-> <<>>, vision_context |-> EmptyVision]

Ensure(st, session_id) ==
    IF session_id \in DOMAIN st THEN st
    ELSE [s \in DOMAIN st \cup {session_id} |->
            IF s = session_id THEN NewSession ELSE st[s]]

\* set_vision_context merging into the stored dict: an empty list of the new
\* context leaves the stored one in place.
set_vision_context_merged(st, session_id, vision_data) ==
    LET stored == Ensure(st, session_id)[session_id].vision_context
    IN  [Ensure(st, session_id) EXCEPT ![session_id].vision_context =
            [vision_data EXCEPT
                !.keys = @ \cup stored.keys,
                !.detected_objects = IF @ = <<>> THEN stored.detected_objects ELSE @]]

set_vision_context(st, session_id, vision_data) ==
    [Ensure(st, session_id) EXCEPT ![session_id].vision_context = vision_data]

\* add_interaction storing a rebuilt session entry, its vision context empty.
add_interaction_fresh_entry(st, session_id, user_query, system_response) ==
    [Ensure(st, session_id) EXCEPT ![session_id] =
        [history |-> @.history
                        \o << [role |-> "user", content |-> user_query],
                               [role |-> "assistant", content |-> system_response] >>,
         vision_context |-> EmptyVision]]

\* add_interaction leaving a canned answer out of the history.
add_interaction_skip_canned(st, session_id, user_query, system_response) ==
    IF system_response.kind = "canned" THEN Ensure(st, session_id)
    ELSE [Ensure(st, session_id) EXCEPT ![session_id].history =
            @ \o << [role |-> "user", content |-> user_query],
                    [role |-> "assistant", content |-> system_response] >>]

\* add_interaction keeping the latest turn only.
add_interaction_replaced(st, session_id, user_query, system_response) ==
    [Ensure(st, session_id) EXCEPT ![session_id].history =
        << [role |-> "user", content |-> user_query],
           [role |-> "assistant", content |-> system_response] >>]

\* add_interaction with the user entry recorded at the head of the history
\* and the assistant entry at its end.
add_interaction_user_first(st, session_id, user_query, system_response) ==
    [Ensure(st, session_id) EXCEPT ![session_id].history =
        << [role |-> "user", content |-> user_query] >> \o @
            \o << [role |-> "assistant", content |-> system_response] >>]

\* add_interaction with the two appends in the other order.
add_interaction_swapped(st, session_id, user_query, system_response) ==
    [Ensure(st, session_id) EXCEPT ![session_id].history =
        @ \o << [role |-> "assistant", content |-> system_response],
                [role |-> "user", content |-> user_query] >>]

add_interaction(st, session_id, user_query, system_response) ==
    [Ensure(st, session_id) EXCEPT ![session_id].history =
        @ \o << [role |-> "user", content |-> user_query],
                [role |-> "assistant", content |-> system_response] >>]

get_context(st, session_id) ==
    LET session_data == IF session_id \in DOMAIN st THEN st[session_id] ELSE NewSession
    IN  [conversation_history |-> session_data.history,
         persistent_vision |-> session_data.vision_context]

\* -------------------------------------------------------- services/llm.py

\* A dict lookup with a default: vision_data.get(key, default).
Get(v, key, default) == IF key \in v.keys THEN v[key] ELSE default

\* Python truth value of the value stored under a key of a vision context.
Truthy(v, key) ==
    CASE key \in {"detected_objects", "bounding_boxes"} -> v.detected_objects # <<>>
      [] key = "text_detected" -> v.text_detected # <<>>
      [] key = "spatial_metrics" -> TRUE
      [] OTHER -> v[key] # ""

\* What json.dumps(persistent_vision, indent=2) writes for an empty dict,
\* at the top level or nested: the two characters "{}".
SerializedHasEmptyDict(v) ==
    \/ v.keys = {}
    \/ "detected_objects" \in v.keys /\ v.detected_objects = <<>>

mode_rules ==
    {"MODE 1: STORYTELLING", "MODE 2: CHART INTERPRETATION",
     "MODE 3: GENERAL IMAGE ANALYSIS", "MODE 4: LEARNING / DIAGRAM EXPLANATION",
     "MODE 5: SECURITY & STRUCTURAL AUDIT", "MODE 6: ARCHITECTURAL & INTERIOR DESIGN",
     "MODE 7: MEDICAL / ANATOMICAL VISUALIZER"}

NoInstruction == [active_mode |-> "", vision |-> EmptyVision]

Sentinel(tag) == [tag |-> tag, system_instruction |-> NoInstruction, contents |-> <<>>]

\* construct_prompt with the image rule checked before the mode rule.
construct_prompt_image_first(persistent_vision, conversation_history, user_query, mode) ==
    IF \/ persistent_vision.keys = {}
       \/ \A k \in persistent_vision.keys : ~Truthy(persistent_vision, k)
       \/ "scene_description" \notin persistent_vision.keys
       \/ persistent_vision.scene_description = ""
    THEN Sentinel("BEHAVIOR_UPLOAD_IMAGE")
    ELSE IF mode = "" \/ mode = "NONE" THEN Sentinel("BEHAVIOR_SELECT_MODE")
    ELSE [tag |-> "PROMPT",
          system_instruction |-> [active_mode |-> mode, vision |-> persistent_vision],
          contents |-> <<[role |-> "user", text |-> user_query]>>]

\* construct_prompt without the default for a mode the table does not hold.
construct_prompt_keep_mode(persistent_vision, conversation_history, user_query, mode) ==
    IF mode = "" \/ mode = "NONE" THEN Sentinel("BEHAVIOR_SELECT_MODE")
    ELSE IF \/ persistent_vision.keys = {}
            \/ \A k \in persistent_vision.keys : ~Truthy(persistent_vision, k)
            \/ "scene_description" \notin persistent_vision.keys
            \/ persistent_vision.scene_description = ""
         THEN Sentinel("BEHAVIOR_UPLOAD_IMAGE")
    ELSE [tag |-> "PROMPT",
          system_instruction |-> [active_mode |-> mode, vision |-> persistent_vision],
          contents |-> Append([i \in 1..Len(conversation_history) |->
                                  [role |-> IF conversation_history[i].role = "user"
                                            THEN "user" ELSE "model",
                                   text |-> conversation_history[i].content]],
                              [role |-> "user", text |-> user_query])]

\* construct_prompt passing the roles of the history on as they are stored.
construct_prompt_roles_kept(persistent_vision, conversation_history, user_query, mode) ==
    IF mode = "" \/ mode = "NONE" THEN Sentinel("BEHAVIOR_SELECT_MODE")
    ELSE IF \/ persistent_vision.keys = {}
            \/ \A k \in persistent_vision.keys : ~Truthy(persistent_vision, k)
            \/ "scene_description" \notin persistent_vision.keys
            \/ persistent_vision.scene_description = ""
         THEN Sentinel("BEHAVIOR_UPLOAD_IMAGE")
    ELSE [tag |-> "PROMPT",
          system_instruction |->
              [active_mode |-> IF mode \in mode_rules THEN mode
                               ELSE "MODE 3: GENERAL IMAGE ANALYSIS",
               vision |-> persistent_vision],
          contents |-> Append([i \in 1..Len(conversation_history) |->
                                  [role |-> conversation_history[i].role,
                                   text |-> conversation_history[i].content]],
                              [role |-> "user", text |-> user_query])]

\* construct_prompt without the rules that ask for an image.
construct_prompt_no_image_rule(persistent_vision, conversation_history, user_query, mode) ==
    IF mode = "" \/ mode = "NONE" THEN Sentinel("BEHAVIOR_SELECT_MODE")
    ELSE [tag |-> "PROMPT",
          system_instruction |-> [active_mode |-> mode, vision |-> persistent_vision],
          contents |-> [i \in 1..(Len(conversation_history) + 1) |->
                           [role |-> "user", text |-> user_query]]]

construct_prompt(persistent_vision, conversation_history, user_query, mode) ==
    IF mode = "" \/ mode = "NONE" THEN Sentinel("BEHAVIOR_SELECT_MODE")
    ELSE IF \/ persistent_vision.keys = {}
            \/ \A k \in persistent_vision.keys : ~Truthy(persistent_vision, k)
         THEN Sentinel("BEHAVIOR_UPLOAD_IMAGE")
    ELSE IF \/ "scene_description" \notin persistent_vision.keys
            \/ persistent_vision.scene_description = ""
         THEN Sentinel("BEHAVIOR_UPLOAD_IMAGE")
    ELSE LET selected_mode == IF mode \in mode_rules THEN mode
                              ELSE "MODE 3: GENERAL IMAGE ANALYSIS"
             turns == [i \in 1..Len(conversation_history) |->
                          [role |-> IF conversation_history[i].role = "user"
                                    THEN "user" ELSE "model",
                           text |-> conversation_history[i].content]]
         IN  [tag |-> "PROMPT",
              system_instruction |-> [active_mode |-> selected_mode,
                                      vision |-> persistent_vision],
              contents |-> Append(turns, [role |-> "user", text |-> user_query])]

\* Response texts.  body holds the literal pieces of the text in order.
Text(kind, body, style, specific, scene, objects) ==
    [kind |-> kind, body |-> body, style |-> style, specific |-> specific,
     scene |-> scene, objects |-> objects]

Canned(sentence) == Text("canned", <<sentence>>, "", <<>>, "", <<>>)

SelectModeText == Canned("Please select a mode to continue.")

UploadImageText == Canned("Please upload an image to begin.")

NoText == Text("none", <<>>, "", <<>>, "", <<>>)

models_to_try == <<"gemini-1.5-flash", "gemini-1.5-pro">>

\* What one POST to a candidate model can come back with.
PostOutcomes == {"ok", "ok_padded", "non_200", "no_candidates", "transport_error"}

\* The text of candidates[0] in a 200 answer of a model.
RawAnswer(model_name, outcome) ==
    IF outcome = "ok_padded" THEN <<" ", model_name, "\n">> ELSE <<model_name>>

\* data["candidates"][0]["content"]["parts"][0]["text"].strip()
RemoteText(model_name, outcome) ==
    Text("remote", strip(RawAnswer(model_name, outcome)), "", <<>>, "", <<>>)

\* generate_response up to its first POST: raise for a missing key, the
\* first-contact sentinel, or go on to the candidates.
generate_response_start(key, prompt_data) ==
    IF key = "" THEN "missing_key"
    ELSE IF /\ SerializedHasEmptyDict(prompt_data.system_instruction.vision)
            /\ Len(prompt_data.contents) <= 1
         THEN "initial_state"
    ELSE "post"

\* generate_response_step giving up after the first candidate failed.
generate_response_step_no_retry(i, outcome) ==
    IF outcome \in {"ok", "ok_padded"} THEN "answered" ELSE "all_failed"

\* After the POST to candidate i returned: answer, next candidate, or raise.
generate_response_step(i, outcome) ==
    IF outcome \in {"ok", "ok_padded"} THEN "answered"
    ELSE IF i < Len(models_to_try) THEN "next"
    ELSE "all_failed"

Uppercase == <<"A", "B", "C", "D", "E", "F", "G", "H", "I", "J", "K", "L", "M",
               "N", "O", "P", "Q", "R", "S", "T", "U", "V", "W", "X", "Y", "Z">>

Lowercase == <<"a", "b", "c", "d", "e", "f", "g", "h", "i", "j", "k", "l", "m",
               "n", "o", "p", "q", "r", "s", "t", "u", "v", "w", "x", "y", "z">>

lower(s) ==
    [i \in 1..Len(s) |->
        IF \E j \in 1..Len(Uppercase) : Uppercase[j] = s[i]
        THEN Lowercase[CHOOSE j \in 1..Len(Uppercase) : Uppercase[j] = s[i]]
        ELSE s[i]]

\* Python's `needle in hay` on strings.
Contains(hay, needle) ==
    \E i \in 0..(Len(hay) - Len(needle)) : SubSeq(hay, i + 1, i + Len(needle)) = needle

generate_local_reply(query, vision_data, mode) ==
    LET scene == Get(vision_data, "scene_description", "an image")
        objects == Get(vision_data, "detected_objects", <<>>)
        query_lower == lower(query)
        hits == {i \in 1..Len(objects) : Contains(query_lower, lower(objects[i][1]))}
        specific_answer ==
            IF hits = {} THEN <<>>
            ELSE objects[CHOOSE i \in hits : \A j \in hits : i <= j]
        style == CASE mode = "MODE 1: STORYTELLING" -> "The Narrative (Interconnected Journey):"
                   [] mode = "MODE 2: CHART INTERPRETATION" -> "Key Observations:"
                   [] mode = "MODE 4: LEARNING / DIAGRAM EXPLANATION" -> "Step-by-Step Explanation:"
                   [] OTHER -> "Image Overview:"
    IN  Text("local", <<style, "Key Metrics", "Key Points">>, style, specific_answer,
             scene, objects)

\* ------------------------------------------------------------ database.py

\* save_chat_session handed the history as it was before the turn.
save_chat_session_stale(rows, session_id, user_id, messages, image_preview) ==
    {row \in rows : row.id # session_id}
        \cup {[id |-> session_id, user_id |-> user_id,
               image_preview |-> image_preview,
               messages |-> SubSeq(messages, 1, Len(messages) - 2)]}

\* INSERT OR REPLACE INTO chat_sessions: id is the primary key.
save_chat_session(rows, session_id, user_id, messages, image_preview) ==
    {row \in rows : row.id # session_id}
        \cup {[id |-> session_id, user_id |-> user_id,
               image_preview |-> image_preview, messages |-> messages]}

get_user_sessions(rows, user_id) == {row \in rows : row.user_id = user_id}

\* -------------------------------------------------------- routers/chat.py

\* base64.b64decode of the payload of a preview: non-alphabet characters are
\* dropped (leaving nothing), bad padding raises, the rest decodes to bytes.
b64decode(encoded) ==
    CASE encoded = <<"!!!!">> -> [ok |-> TRUE, data |-> NoBytes]
      [] encoded = <<"abc">> -> [ok |-> FALSE, data |-> NoBytes]
      [] encoded = <<"aGVsbG8=">> -> [ok |-> TRUE, data |-> Bytes(5, "none")]
      [] encoded = <<"b64(A)">> -> [ok |-> TRUE, data |-> Bytes(1024, "A")]
      [] OTHER -> [ok |-> TRUE, data |-> NoBytes]

\* Lines 56-63: active_image_bytes from the preview when no file came.
decode_preview(image_preview) ==
    IF image_preview # <<>> /\ \E i \in 1..Len(image_preview) : image_preview[i] = ","
    THEN LET at == CHOOSE i \in 1..Len(image_preview) :
                      /\ image_preview[i] = ","
                      /\ \A j \in 1..(i - 1) : image_preview[j] # ","
             encoded == SubSeq(image_preview, at + 1, Len(image_preview))
             decoded == b64decode(encoded)
         IN  IF decoded.ok THEN decoded.data ELSE NoBytes
    ELSE NoBytes

VARIABLES
    pc,        \* per slot: "idle", "reading", "posting", "done"
    req,       \* per slot: the handler's arguments and locals
    out,       \* per slot: what the handler returned or raised
    store,     \* MemoryLayer._store
    engine,    \* VisionProcessingLayer.engine: "none" or "ready"
    rows,      \* table chat_sessions
    api_key,   \* ConversationalReasoningLayer.api_key
    log        \* the requests in the order they were submitted

vars == <<pc, req, out, store, engine, rows, api_key, log>>

NoPrompt == Sentinel("")

NoReq ==
    [seq |-> 0, session_id |-> "", query |-> <<>>, mode |-> "", user_id |-> "",
     image_preview |-> <<>>, image |-> <<>>, prompt_data |-> NoPrompt,
     persistent_vision |-> EmptyVision, attempts |-> <<>>]

NoOut ==
    [status_code |-> 0, text |-> NoText, mode |-> "", vision_metadata |-> EmptyVision,
     fault |-> "none", reasoner |-> "not_called", local_called |-> FALSE]

Init ==
    /\ pc = [r \in Slots |-> "idle"]
    /\ req = [r \in Slots |-> NoReq]
    /\ out = [r \in Slots |-> NoOut]
    /\ store = <<>>
    /\ engine = "none"
    /\ rows = {}
    /\ api_key \in {"", "key"}
    /\ log = <<>>

InFlight(r) == pc[r] \in {"reading", "posting"}

\* Lines 144-147: any exception of the handler body, the 400 of
\* validate_image included, leaves as HTTPException(status_code=500).
Raise(r, rq, lg, fault, reasoner, local_called) ==
    /\ pc' = [pc EXCEPT ![r] = "done"]
    /\ req' = [req EXCEPT ![r] = rq]
    /\ out' = [out EXCEPT ![r] =
           [NoOut EXCEPT !.status_code = 500, !.fault = fault,
                         !.reasoner = reasoner, !.local_called = local_called]]
    /\ log' = [lg EXCEPT ![rq.seq].result = "error"]

\* mode_tag ignoring the failure flag.
mode_tag_always_hybrid(api_failed) == "hybrid"

\* Line 135: the mode tag of the envelope.
mode_tag(api_failed) == IF api_failed THEN "local" ELSE "hybrid"

\* An except clause that names only a class the reasoner does not raise.
except_clause_timeout_only(exc) == {exc, "Exception"} \cap {"TimeoutError"} # {}

\* Line 89, `except (ConnectionError, Exception)`: whether the clause catches
\* an exception of the given class (every class derives from Exception).
except_clause(exc) == {exc, "Exception"} \cap {"ConnectionError", "Exception"} # {}

\* Lines 96-142: memory update, save for an authenticated caller, envelope.
Finish(r, rq, lg, st, raw_response, api_failed, reasoner, local_called, db_ok) ==
    LET st2 == add_interaction(st, rq.session_id, rq.query, raw_response)
        updated_context == get_context(st2, rq.session_id)
    IN  /\ store' = st2
        /\ IF rq.user_id # "" /\ ~db_ok
           THEN /\ rows' = rows
                /\ Raise(r, rq, lg, "persist", reasoner, local_called)
           ELSE /\ rows' = IF rq.user_id # ""
                           THEN save_chat_session(rows, rq.session_id, rq.user_id,
                                    updated_context.conversation_history, rq.image_preview)
                           ELSE rows
                /\ pc' = [pc EXCEPT ![r] = "done"]
                /\ req' = [req EXCEPT ![r] = rq]
                /\ out' = [out EXCEPT ![r] =
                       [status_code |-> 200,
                        text |-> raw_response,
                        mode |-> mode_tag(api_failed),
                        vision_metadata |-> rq.persistent_vision,
                        fault |-> "none",
                        reasoner |-> reasoner,
                        local_called |-> local_called]]
                /\ log' = [lg EXCEPT ![rq.seq].result = "normal"]

\* Lines 89-94: the except branch around prompt construction and reasoning.
local_fallback(rq) ==
    LET raw_response == generate_local_reply(rq.query, rq.persistent_vision, rq.mode)
    IN  IF rq.persistent_vision.keys = {} THEN UploadImageText ELSE raw_response

\* Lines 70-94 up to the first POST: load the context, compose, decide.
Decide(r, rq0, lg, st, db_ok) ==
    LET full_context == get_context(st, rq0.session_id)
        persistent_vision == full_context.persistent_vision
        history == full_context.conversation_history
        prompt_data == construct_prompt(persistent_vision, history, rq0.query, rq0.mode)
        rq == [rq0 EXCEPT !.persistent_vision = persistent_vision,
                          !.prompt_data = prompt_data]
        start == generate_response_start(api_key, prompt_data)
    IN  IF prompt_data.tag = "BEHAVIOR_SELECT_MODE"
        THEN Finish(r, rq, lg, st, SelectModeText, FALSE, "not_called", FALSE, db_ok)
        ELSE IF prompt_data.tag = "BEHAVIOR_UPLOAD_IMAGE"
        THEN Finish(r, rq, lg, st, UploadImageText, FALSE, "not_called", FALSE, db_ok)
        ELSE IF start = "missing_key"
        THEN IF except_clause("ConnectionError")
             THEN Finish(r, rq, lg, st, local_fallback(rq), TRUE, "missing_key", TRUE, db_ok)
             ELSE /\ store' = st
                  /\ rows' = rows
                  /\ Raise(r, rq, lg, "remote", "missing_key", FALSE)
        ELSE IF start = "initial_state"
        THEN Finish(r, rq, lg, st, UploadImageText, FALSE, "initial_state", FALSE, db_ok)
        ELSE /\ pc' = [pc EXCEPT ![r] = "posting"]
             /\ req' = [req EXCEPT ![r] = rq]
             /\ out' = [out EXCEPT ![r] = NoOut]
             /\ store' = st
             /\ rows' = rows
             /\ log' = lg

\* Lines 65-68 and on: refresh the vision context when bytes came, then decide.
Refresh(r, rq, lg, active_image_bytes, init_ok, pipeline_ok, db_ok) ==
    IF active_image_bytes.len > 0
    THEN LET processed_image == process(active_image_bytes)
         IN  IF ~processed_image.ok
             THEN /\ Raise(r, rq, lg, "preprocess", "not_called", FALSE)
                  /\ UNCHANGED <<store, engine, rows>>
             ELSE IF engine = "none" /\ ~init_ok
             THEN /\ Raise(r, rq, lg, "engine_init", "not_called", FALSE)
                  /\ UNCHANGED <<store, engine, rows>>
             ELSE /\ engine' = "ready"
                  /\ Decide(r, rq, lg,
                       set_vision_context(store, rq.session_id,
                                          analyze(processed_image.image, pipeline_ok)),
                       db_ok)
    ELSE /\ engine' = engine
         /\ Decide(r, rq, lg, store, db_ok)

\* uuid4: an id no request has used.
uuid4 == Uuids[Len(log) + 1]

FreeSlots == {r \in Slots : ~InFlight(r)}

\* A request arrives: lines 44-55, and the rest of the handler when there is
\* no file to read.
Receive(r) ==
    /\ Len(log) < MaxRequests
    /\ r \in FreeSlots /\ \A x \in FreeSlots : r <= x
    /\ \E form \in Requests,
          init_ok \in (IF engine = "none" THEN BOOLEAN ELSE {TRUE}),
          pipeline_ok \in BOOLEAN :
        \E db_ok \in (IF form.user_id = "" THEN {TRUE} ELSE BOOLEAN) :
          LET image == form.image
              image_preview == form.image_preview
              rq == [NoReq EXCEPT
                        !.seq = Len(log) + 1,
                        !.session_id = get_or_create_session_id(form.session_id, uuid4),
                        !.query = sanitize_text(form.query),
                        !.mode = form.mode,
                        !.user_id = form.user_id,
                        !.image_preview = image_preview,
                        !.image = image]
              logged == Append(log, [session_id |-> rq.session_id, query |-> rq.query,
                                     result |-> "pending"])
          IN  IF image # <<>>
              THEN IF ~validate_content_type(image[1]).ok
                   THEN /\ Raise(r, rq, logged, "validation", "not_called", FALSE)
                        /\ UNCHANGED <<store, engine, rows>>
                   ELSE /\ pc' = [pc EXCEPT ![r] = "reading"]
                        /\ req' = [req EXCEPT ![r] = rq]
                        /\ out' = [out EXCEPT ![r] = NoOut]
                        /\ log' = logged
                        /\ UNCHANGED <<store, engine, rows>>
              ELSE Refresh(r, rq, logged, decode_preview(image_preview),
                           init_ok, pipeline_ok, db_ok)
    /\ UNCHANGED api_key

\* file.read() returned: the rest of validate_image (lines 21-35 of
\* validation.py), then the handler from line 65.
ReadDone(r) ==
    /\ pc[r] = "reading"
    /\ \E init_ok \in (IF engine = "none" THEN BOOLEAN ELSE {TRUE}),
          pipeline_ok \in BOOLEAN,
          db_ok \in (IF req[r].user_id = "" THEN {TRUE} ELSE BOOLEAN) :
          LET checked == validate_image(req[r].image[1])
          IN  IF ~checked.ok
              THEN /\ Raise(r, req[r], log, "validation", "not_called", FALSE)
                   /\ UNCHANGED <<store, engine, rows>>
              ELSE Refresh(r, req[r], log, checked.data, init_ok, pipeline_ok, db_ok)
    /\ UNCHANGED api_key

\* The POST to the current candidate model returned (llm.py lines 231-249),
\* then the handler from line 86 or from its except branch.
PostDone(r) ==
    /\ pc[r] = "posting"
    /\ \E outcome \in PostOutcomes,
          db_ok \in (IF req[r].user_id = "" THEN {TRUE} ELSE BOOLEAN) :
          LET i == Len(req[r].attempts) + 1
              model_name == models_to_try[i]
              rq == [req[r] EXCEPT !.attempts =
                        Append(@, [model |-> model_name, outcome |-> outcome])]
              step == generate_response_step(i, outcome)
          IN  /\ engine' = engine
              /\ IF step = "answered"
                 THEN Finish(r, rq, log, store, RemoteText(model_name, outcome),
                             FALSE, "answered", FALSE, db_ok)
                 ELSE IF step = "next"
                 THEN /\ req' = [req EXCEPT ![r] = rq]
                      /\ UNCHANGED <<pc, out, store, rows, log>>
                 ELSE IF except_clause("ConnectionError")
                 THEN Finish(r, rq, log, store, local_fallback(rq),
                             TRUE, "all_failed", TRUE, db_ok)
                 ELSE /\ UNCHANGED <<store, rows>>
                      /\ Raise(r, rq, log, "remote", "all_failed", FALSE)
    /\ UNCHANGED api_key

\* One request at a time: a request is submitted when none is in flight.
Submit(r) ==
    /\ \A x \in Slots : ~InFlight(x)
    /\ Receive(r)

Next == \E r \in Slots : Submit(r) \/ ReadDone(r) \/ PostDone(r)

Spec == Init /\ [][Next]_vars

\* Requests submitted while others are suspended in a read or a POST.
\* The requests of the concurrent runs: all on the known session, with image A
\* or B, with the mode unset, by an authenticated caller.
ConcurrentInput(rq) ==
    /\ rq.session_id = "s1"
    /\ rq.image_preview = <<>>
    /\ rq.mode \in {"", "standard"}
    /\ \/ rq.image \in {FileA, FileB} /\ rq.mode = "standard"
       \/ rq.image = <<>> /\ rq.user_id = "" /\ rq.query # sanitize_text(CarQuery)
       \/ rq.image = <<>> /\ rq.user_id = "u1"

\* A request arrives while others may be suspended.
Arrive(r) == Receive(r) /\ ConcurrentInput(req'[r])

\* The POST returned, with an answer or with a transport error.
Answer(r) ==
    /\ PostDone(r)
    /\ req'[r].attempts[Len(req'[r].attempts)].outcome \in {"ok", "transport_error"}

NextConcurrent == \E r \in Slots : Arrive(r) \/ ReadDone(r) \/ Answer(r)

SpecConcurrent == Init /\ [][NextConcurrent]_vars

TypeOK ==
    /\ \A r \in Slots : pc[r] \in {"idle", "reading", "posting", "done"}
    /\ engine \in {"none", "ready"}
    /\ DOMAIN store \subseteq SessionIds
    /\ Len(log) <= MaxRequests

\* ------------------------------------------------------------------ claims

History(s) == IF s \in DOMAIN store THEN store[s].history ELSE <<>>

\* The requests submitted on session s, in the order of submission.
SessionLog(s) == SelectSeq(log, LAMBDA e : e.session_id = s)

Done(r) == pc[r] = "done"

Normal(r) == Done(r) /\ out[r].status_code = 200

ModeUnset(mode) == mode = "" \/ mode = "NONE"

RemoteFailed(r) == out[r].reasoner \in {"missing_key", "all_failed"}

\* C1: on every session whose requests, issued one after another, have all
\* completed with a normal response, the history holds two entries per
\* request: the request's sanitized query as a user entry followed by an
\* assistant entry, in the order the requests were submitted.
C1_TwoEntriesPerTurnInOrder ==
    \A s \in SessionIds :
        LET sl == SessionLog(s)
            h == History(s)
        IN  (\A i \in 1..Len(sl) : sl[i].result = "normal") =>
                /\ Len(h) = 2 * Len(sl)
                /\ \A k \in 1..Len(sl) :
                      /\ h[2 * k - 1].role = "user"
                      /\ h[2 * k - 1].content = sl[k].query
                      /\ h[2 * k].role = "assistant"

\* Two normal turns with different queries on one session.
C1_Witness ==
    \E s \in SessionIds :
        LET sl == SessionLog(s)
        IN  /\ Len(sl) = 2
            /\ sl[1].result = "normal" /\ sl[2].result = "normal"
            /\ sl[1].query # sl[2].query
            /\ Len(History(s)) = 4

\* C2: a request whose mode is unset ("" or "NONE") never reaches the Remote
\* Reasoner or the Local Fallback Responder, and when it completes with a
\* normal response the text is the select-a-mode text, whatever the vision
\* context and the history.
C2_UnsetModeSelectsMode ==
    \A r \in Slots :
        ModeUnset(req[r].mode) =>
            /\ pc[r] # "posting"
            /\ Normal(r) =>
                  /\ out[r].text = SelectModeText
                  /\ out[r].reasoner = "not_called"
                  /\ ~out[r].local_called

\* Mode unset on a session that has a vision context and a turn of history.
C2_Witness ==
    \E r \in Slots :
        /\ Normal(r)
        /\ req[r].mode = "NONE"
        /\ out[r].vision_metadata.keys # {}
        /\ Len(History(req[r].session_id)) = 4
        /\ out[r].text = SelectModeText

\* C3 as stated: with an empty vision context the response text is the
\* upload-an-image text, regardless of the mode.
C3_Original ==
    \A r \in Slots :
        (Normal(r) /\ out[r].vision_metadata.keys = {}) =>
            out[r].text = UploadImageText

\* C3 amended: with an empty vision context and a mode that is set, the
\* response text is the upload-an-image text, regardless of the history;
\* with the mode unset it is the select-a-mode text.
C3_EmptyVisionAsksForImage ==
    \A r \in Slots :
        (Normal(r) /\ out[r].vision_metadata.keys = {}) =>
            out[r].text = IF ModeUnset(req[r].mode) THEN SelectModeText
                          ELSE UploadImageText

\* Mode set, no image yet, on a session that already has a turn of history.
C3_Witness ==
    \E r \in Slots :
        /\ Normal(r)
        /\ ~ModeUnset(req[r].mode)
        /\ out[r].vision_metadata.keys = {}
        /\ Len(History(req[r].session_id)) = 4
        /\ out[r].text = UploadImageText

\* C4: when the Remote Reasoner fails (missing credential, or every candidate
\* failing) the failure is absorbed: unless the save to durable storage fails
\* afterwards, the request completes with a normal envelope whose text is the
\* Local Fallback Responder's reply and whose mode tag is local.
C4_RemoteFailureFallsBackLocal ==
    \A r \in Slots :
        (Done(r) /\ RemoteFailed(r)) =>
            /\ out[r].fault \in {"none", "persist"}
            /\ out[r].local_called
            /\ out[r].fault = "none" =>
                  /\ out[r].status_code = 200
                  /\ out[r].mode = "local"
                  /\ out[r].text = generate_local_reply(req[r].query,
                                       req[r].persistent_vision, req[r].mode)

\* Every candidate failed and the caller got the local reply.
C4_Witness ==
    \E r \in Slots :
        /\ Normal(r)
        /\ out[r].reasoner = "all_failed"
        /\ out[r].mode = "local"
        /\ out[r].text.kind = "local"

\* The text of the degradation notice; no text of the code carries one.
DegradationNotice == "degradation notice"

HasNotice(text) == \E i \in 1..Len(text.body) : text.body[i] = DegradationNotice

\* The history entries of r's session before r's own turn was appended.
Before(r) ==
    LET h == History(req[r].session_id)
    IN  SubSeq(h, 1, Len(h) - 2)

NoticeInLastTwo(h) ==
    \E i \in 1..Len(h) :
        /\ i > Len(h) - 2
        /\ h[i].role = "assistant"
        /\ HasNotice(h[i].content)

\* C5: a degraded turn (remote reasoning failed, local reply returned)
\* carries the degradation notice when neither of the last two history
\* entries carries it, and does not carry it again when one of them does.
C5_NoticeOncePerWindow ==
    \A r \in Slots :
        (Normal(r) /\ RemoteFailed(r)) =>
            (HasNotice(out[r].text) <=> ~NoticeInLastTwo(Before(r)))

\* C6 as stated: a request ends in an explicit failure only when input
\* validation failed (an image that cannot be decoded counted as such).
C6_Original ==
    \A r \in Slots :
        (Done(r) /\ out[r].status_code # 200) =>
            out[r].fault \in {"validation", "preprocess"}

\* C6 amended: a request ends in an explicit failure only when image
\* validation, image preprocessing, the initialization of the vision engine
\* or the save to durable storage failed; a failure of the remote service or
\* of the vision pipeline is absorbed, and without a save to make the
\* request then ends in a normal response.
C6_OnlyTheseFaultsSurface ==
    \A r \in Slots :
        Done(r) =>
            /\ out[r].status_code \in {200, 500}
            /\ out[r].status_code # 200 =>
                  out[r].fault \in {"validation", "preprocess", "engine_init", "persist"}
            /\ (req[r].user_id = "" /\ (RemoteFailed(r)
                    \/ req[r].persistent_vision = FailsafeVision)) =>
                  out[r].status_code = 200

\* A request in which both the vision pipeline and the remote service failed
\* ends in a normal response.
C6_Witness ==
    \E r \in Slots :
        /\ Normal(r)
        /\ out[r].reasoner = "all_failed"
        /\ req[r].image # <<>>
        /\ req[r].persistent_vision = FailsafeVision

\* C7: a request whose uploaded file has a disallowed media type, exceeds the
\* size ceiling or is empty is rejected with a client error (4xx).
C7_InvalidUploadIsClientError ==
    \A r \in Slots :
        (Done(r) /\ req[r].image # <<>> /\ ~validate_image(req[r].image[1]).ok) =>
            out[r].status_code \in 400..499

\* C8: a request with no file and a malformed preview is never fatal and
\* leaves the vision context of its session as it was.
C8_MalformedPreviewSkipped ==
    [][\A r \in Slots :
          (/\ req'[r].seq # req[r].seq
           /\ req'[r].image = <<>>
           /\ req'[r].image_preview \in BadPreviews) =>
              /\ out'[r].status_code # 500
              /\ get_context(store', req'[r].session_id).persistent_vision
                    = get_context(store, req'[r].session_id).persistent_vision]_vars

Failed(outcome) == outcome \in {"non_200", "no_candidates", "transport_error"}

\* C9: the candidates are tried in the order of models_to_try; a candidate is
\* tried only after every earlier one failed; an answer is the trimmed text of
\* the first candidate that succeeded; the all-models-failed error is raised
\* only after every candidate was tried and failed.
C9_CandidatesInOrderUntilExhausted ==
    \A r \in Slots :
        LET a == req[r].attempts
        IN  /\ Len(a) <= Len(models_to_try)
            /\ \A i \in 1..Len(a) : a[i].model = models_to_try[i]
            /\ \A i \in 1..(Len(a) - 1) : Failed(a[i].outcome)
            /\ (Done(r) /\ out[r].reasoner = "answered") =>
                  /\ Len(a) >= 1
                  /\ ~Failed(a[Len(a)].outcome)
                  /\ out[r].fault = "none" =>
                        out[r].text = RemoteText(a[Len(a)].model, a[Len(a)].outcome)
            /\ (Done(r) /\ out[r].reasoner = "all_failed") =>
                  /\ Len(a) = Len(models_to_try)
                  /\ \A i \in 1..Len(a) : Failed(a[i].outcome)
            /\ (pc[r] = "posting") => \A i \in 1..Len(a) : Failed(a[i].outcome)

\* The failure was raised after both candidates were tried.
C9_Witness ==
    \E r \in Slots :
        /\ Done(r)
        /\ out[r].reasoner = "all_failed"
        /\ Len(req[r].attempts) = 2

\* C10: the first-contact sentinel is returned only for a payload with an
\* empty vision context and no prior turns; a first-turn payload composed
\* from a non-empty vision context reaches the backend, so the answer is
\* never the upload-an-image text.
C10_SentinelOnlyForEmptyContext ==
    \A r \in Slots :
        (Normal(r) /\ req[r].prompt_data.tag = "PROMPT") =>
            /\ out[r].reasoner = "initial_state" =>
                  /\ req[r].prompt_data.system_instruction.vision.keys = {}
                  /\ Len(req[r].prompt_data.contents) <= 1
            /\ (req[r].persistent_vision.keys # {}
                    /\ Len(req[r].prompt_data.contents) = 1) =>
                  out[r].text # UploadImageText

\* The vision contexts the pipeline computes for the images of the model.
VisionContexts == {analyze(image, ok) : image \in {"A", "B"}, ok \in BOOLEAN}

\* The request in slot r carried a valid image and has written its context.
Refreshed(r) ==
    /\ req[r].image # <<>>
    /\ pc[r] \in {"posting", "done"}
    /\ out[r].fault \in {"none", "persist"}

\* C11: with requests on one session carrying different images in flight
\* together, the session's vision context is always a context computed for
\* one image as a whole, never a mixture; each request reads back the context
\* it computed; and once the two requests have both written, the stored
\* context is the one of either of them.
C11_VisionContextLastWriterWins ==
    /\ \A s \in DOMAIN store : store[s].vision_context \in {EmptyVision} \cup VisionContexts
    /\ \A r \in Slots :
          Refreshed(r) =>
              \E ok \in BOOLEAN :
                  req[r].persistent_vision
                      = analyze(process(req[r].image[1].data).image, ok)
    /\ \A r1, r2 \in Slots :
          (/\ r1 # r2 /\ Len(log) = 2
           /\ Refreshed(r1) /\ Refreshed(r2)
           /\ req[r1].session_id = req[r2].session_id) =>
              get_context(store, req[r1].session_id).persistent_vision
                  \in {req[r1].persistent_vision, req[r2].persistent_vision}

\* Two requests with images A and B in flight together on one session; the
\* one submitted first wrote last, and its context is the stored one.
C11_Witness ==
    \E r1, r2 \in Slots :
        /\ req[r1].seq = 1 /\ req[r2].seq = 2
        /\ Refreshed(r1) /\ Refreshed(r2)
        /\ req[r1].session_id = req[r2].session_id
        /\ req[r1].image = FileA /\ req[r2].image = FileB
        /\ req[r1].persistent_vision = analyze_image("A")
        /\ req[r2].persistent_vision = analyze_image("B")
        /\ get_context(store, req[r1].session_id).persistent_vision = analyze_image("A")

\* The request in slot r completes in this step.
Completes(r) ==
    /\ pc'[r] = "done"
    /\ pc[r] \in {"reading", "posting"} \/ req'[r].seq # req[r].seq

\* C12: with requests in flight together on one session, the history changes
\* only by one request appending its user entry and, right behind it, its
\* assistant entry: no entry of another request ever lies between the two.
C12_TurnEntriesAdjacent ==
    [][\A s \in SessionIds :
          LET h == History(s)
              n == Len(h)
              hn == IF s \in DOMAIN store' THEN store'[s].history ELSE <<>>
          IN  hn # h =>
                \E r \in Slots :
                    /\ Completes(r)
                    /\ req'[r].session_id = s
                    /\ Len(hn) = n + 2
                    /\ SubSeq(hn, 1, n) = h
                    /\ hn[n + 1] = [role |-> "user", content |-> req'[r].query]
                    /\ hn[n + 2].role = "assistant"
                    /\ out'[r].fault = "none" => hn[n + 2].content = out'[r].text]_vars

\* Two requests were in flight together on one session and both completed:
\* the one submitted second appended its turn first.
C12_Witness ==
    \E r1, r2 \in Slots :
        /\ req[r1].seq = 1 /\ req[r2].seq = 2
        /\ Normal(r1) /\ Normal(r2)
        /\ req[r1].session_id = req[r2].session_id
        /\ req[r1].query # req[r2].query
        /\ LET h == History(req[r1].session_id)
           IN  /\ Len(h) = 4
               /\ h[1].content = req[r2].query /\ h[2].content = out[r2].text
               /\ h[3].content = req[r1].query /\ h[4].content = out[r1].text

\* C13: with requests in flight together on one session, the turns lie in the
\* history in the order the requests were submitted, also when a request
\* submitted later was answered before an earlier one still waiting for the
\* Remote Reasoner.
C13_TurnsInSubmissionOrder ==
    \A s \in SessionIds :
        LET sl == SessionLog(s)
            h == History(s)
        IN  (\A i \in 1..Len(sl) : sl[i].result = "normal") =>
                \A k \in 1..Len(sl) :
                    /\ 2 * k <= Len(h)
                    /\ h[2 * k - 1].role = "user"
                    /\ h[2 * k - 1].content = sl[k].query

\* The request in slot r is the second of its session and has been answered.
\* It carried a mode and no image, and repeats the query of the first, which
\* brought the image of the session and was answered, the mode being unset,
\* with the select-a-mode text that r found in the history.
SelectThenAsk(r) ==
    LET sl == SessionLog(req[r].session_id)
        contents == req[r].prompt_data.contents
    IN  /\ Normal(r)
        /\ req[r].seq = Len(log)
        /\ Len(sl) = 2
        /\ sl[1].result = "normal"
        /\ sl[2].query = sl[1].query
        /\ ~ModeUnset(req[r].mode)
        /\ req[r].image = <<>> /\ req[r].image_preview = <<>>
        /\ req[r].persistent_vision.keys # {}
        /\ req[r].prompt_data.tag = "PROMPT"
        /\ Len(contents) = 3
        /\ contents[2].text = SelectModeText

\* C14 as stated: after the select-a-mode turn and the turn that repeats the
\* query with a mode set, the history of the fresh session has two entries.
C14_Original ==
    \A r \in Slots : SelectThenAsk(r) => Len(History(req[r].session_id)) = 2

\* C14 amended: after the two requests the history has four entries, the
\* select-a-mode turn followed by the turn answered in the mode.
C14_SelectModeTurnIsRecorded ==
    \A r \in Slots :
        SelectThenAsk(r) =>
            LET h == History(req[r].session_id)
            IN  /\ Len(h) = 4
                /\ h[1] = [role |-> "user", content |-> req[r].query]
                /\ h[2] = [role |-> "assistant", content |-> SelectModeText]
                /\ h[3] = [role |-> "user", content |-> req[r].query]
                /\ h[4] = [role |-> "assistant", content |-> out[r].text]
                /\ out[r].text # SelectModeText

\* The second request was answered by the Remote Reasoner about the image of
\* the first.
C14_Witness ==
    \E r \in Slots :
        /\ SelectThenAsk(r)
        /\ out[r].reasoner = "answered"
        /\ out[r].vision_metadata = analyze_image("A")
        /\ Len(History(req[r].session_id)) = 4

\* C15: VisionProcessingLayer.analyze never raises: no request ends in a
\* failure of the vision engine, and the context it returns when the pipeline
\* failed has a non-blank placeholder scene description, an explanatory
\* confidence note, and empty collections of detected objects and of
\* detected text.
C15_AnalyzeNeverRaises ==
    \A r \in Slots :
        /\ Done(r) => out[r].fault # "engine_init"
        /\ (Refreshed(r)
                /\ req[r].persistent_vision.analysis_mode = "Offline Local AI (Failsafe)") =>
              /\ req[r].persistent_vision.scene_description # ""
              /\ req[r].persistent_vision.confidence_note # ""
              /\ req[r].persistent_vision.detected_objects = <<>>
              /\ req[r].persistent_vision.text_detected = <<>>

\* C16: a normal response is tagged hybrid only when the Remote Reasoner was
\* invoked and returned the text of the response, and local only when the
\* Local Fallback Responder produced the text; a response whose text is one of
\* the canned precondition texts is not tagged hybrid.
C16_ModeTagNamesTheProducer ==
    \A r \in Slots :
        Normal(r) =>
            /\ out[r].mode = "hybrid" =>
                  /\ out[r].reasoner = "answered"
                  /\ out[r].text.kind = "remote"
            /\ out[r].mode = "local" =>
                  /\ out[r].local_called
                  /\ out[r].text.kind = "local"
            /\ out[r].text \in {SelectModeText, UploadImageText} =>
                  out[r].mode # "hybrid"

\* Modes that are set and that the mode table does not hold.
UnknownModes == {"standard", "general analysis", "mode 1: storytelling"}

\* A vision context with which composition goes past the precondition checks.
ValidVision(v) ==
    /\ v.keys # {}
    /\ "scene_description" \in v.keys
    /\ v.scene_description # ""

\* C17: prompt composition does not fail on an unrecognized mode: with a valid
\* vision context, every set mode the table does not hold, the endpoint's
\* default "standard" included, yields a real payload whose active mode is the
\* general-analysis default, for the requests of the model and for every
\* stored context and history.
C17_UnknownModeFallsBackToGeneral ==
    /\ \A r \in Slots :
          (/\ ~ModeUnset(req[r].mode)
           /\ req[r].mode \notin mode_rules
           /\ ValidVision(req[r].persistent_vision)) =>
              /\ req[r].prompt_data.tag = "PROMPT"
              /\ req[r].prompt_data.system_instruction.active_mode
                    = "MODE 3: GENERAL IMAGE ANALYSIS"
              /\ req[r].prompt_data.system_instruction.vision = req[r].persistent_vision
    /\ \A s \in DOMAIN store, mode \in UnknownModes :
          ValidVision(store[s].vision_context) =>
              LET prompt_data == construct_prompt(store[s].vision_context,
                                                  store[s].history, CarQuery, mode)
              IN  /\ prompt_data.tag = "PROMPT"
                  /\ prompt_data.system_instruction.active_mode
                        = "MODE 3: GENERAL IMAGE ANALYSIS"

\* A request in the endpoint's default mode, on a session with an image and a
\* turn of history, was composed in the general-analysis mode.
C17_Witness ==
    \E r \in Slots :
        /\ req[r].mode = "standard"
        /\ ValidVision(req[r].persistent_vision)
        /\ req[r].prompt_data.tag = "PROMPT"
        /\ req[r].prompt_data.system_instruction.active_mode
              = "MODE 3: GENERAL IMAGE ANALYSIS"
        /\ Len(req[r].prompt_data.contents) = 3

\* C18: a request with a user id that reaches the save writes, as the
\* transcript of its session, the history as it is after the memory update of
\* this turn, whose last two entries are the request's query and response;
\* a request without a user id writes nothing, and nothing else writes.
C18_SavedTranscriptIsUpdatedHistory ==
    [][/\ \A r \in Slots :
            Completes(r) =>
                IF req'[r].user_id # "" /\ out'[r].fault = "none"
                THEN LET s == req'[r].session_id
                         h == store'[s].history
                     IN  /\ Len(h) >= 2
                         /\ h[Len(h) - 1] = [role |-> "user", content |-> req'[r].query]
                         /\ h[Len(h)] = [role |-> "assistant", content |-> out'[r].text]
                         /\ \E row \in rows' :
                               /\ row.id = s
                               /\ row.user_id = req'[r].user_id
                               /\ row.messages = h
                         /\ \A row \in rows' : row.id # s => row \in rows
                ELSE rows' = rows
       /\ rows' # rows => \E r \in Slots : Completes(r) /\ req'[r].user_id # ""]_vars

\* An authenticated request overlapped with another request of its session,
\* was answered after it, and the saved transcript holds both turns.
C18_Witness ==
    \E r1, r2 \in Slots :
        /\ r1 # r2
        /\ Normal(r1) /\ Normal(r2)
        /\ req[r1].user_id # ""
        /\ req[r1].session_id = req[r2].session_id
        /\ LET h == History(req[r1].session_id)
           IN  /\ Len(h) = 4
               /\ h[1].content = req[r2].query
               /\ h[3].content = req[r1].query
               /\ \E row \in rows : row.id = req[r1].session_id /\ row.messages = h

\* C19: every request that ends in a normal response appends exactly one
\* pair to the history of its session, its query as a user entry and the text
\* of the envelope as an assistant entry, whichever path produced the text:
\* a canned answer, the Remote Reasoner or the Local Fallback Responder.
C19_OnePairPerNormalResponse ==
    [][\A r \in Slots :
          (Completes(r) /\ out'[r].status_code = 200) =>
              /\ DOMAIN store' = DOMAIN store \cup {req'[r].session_id}
              /\ \A s \in DOMAIN store' :
                    store'[s].history =
                        IF s = req'[r].session_id
                        THEN History(s)
                               \o << [role |-> "user", content |-> req'[r].query],
                                      [role |-> "assistant", content |-> out'[r].text] >>
                        ELSE History(s)]_vars

\* A turn answered by the Local Fallback Responder followed by a turn answered
\* with a canned text: both are in the history.
C19_Witness ==
    \E r \in Slots :
        /\ Normal(r)
        /\ out[r].text.kind = "canned"
        /\ LET h == History(req[r].session_id)
           IN  /\ Len(h) = 4
               /\ h[2].content.kind = "local"
               /\ h[3] = [role |-> "user", content |-> req[r].query]
               /\ h[4] = [role |-> "assistant", content |-> out[r].text]

\* The history of r's session as it was when r's prompt was composed: r's own
\* turn, once appended, left out.
Composed(r) ==
    LET h == History(req[r].session_id)
    IN  IF pc[r] = "done" THEN SubSeq(h, 1, Len(h) - 2) ELSE h

\* C20: a real prompt payload has one message per history turn plus one: the
\* i-th message carries the content of the i-th turn, with role user for a
\* user turn and model for any other, and the last message is the current
\* query with role user.
C20_MessagesAreHistoryThenQuery ==
    \A r \in Slots :
        (/\ req[r].seq = Len(log)
         /\ pc[r] \in {"posting", "done"}
         /\ req[r].prompt_data.tag = "PROMPT") =>
            LET contents == req[r].prompt_data.contents
                h == Composed(r)
            IN  /\ Len(contents) = Len(h) + 1
                /\ \A i \in 1..Len(h) :
                      /\ contents[i].text = h[i].content
                      /\ contents[i].role = IF h[i].role = "user" THEN "user" ELSE "model"
                /\ contents[Len(contents)] = [role |-> "user", text |-> req[r].query]

\* A payload composed on a history of one turn, awaiting the first POST.
C20_Witness ==
    \E r \in Slots :
        /\ pc[r] = "posting"
        /\ req[r].prompt_data.tag = "PROMPT"
        /\ Len(History(req[r].session_id)) = 2
        /\ Len(req[r].prompt_data.contents) = 3
        /\ req[r].prompt_data.contents[1].role = "user"
        /\ req[r].prompt_data.contents[2].role = "model"

\* C21: the saved records are keyed by session id and user id together: a
\* save made for one user leaves every record saved by another user, on the
\* same session too, among the records get_user_sessions returns for that
\* user, with the transcript that user saved.
C21_SavedRecordsKeyedBySessionAndUser ==
    [][\A r \in Slots :
          Completes(r) =>
              \A row \in rows :
                  row.user_id # req'[r].user_id =>
                      row \in get_user_sessions(rows', row.user_id)]_vars

\* The image bytes the request in slot r brings once its file is read: those
\* of the file, or else those of the preview.
CarriedBytes(rq) ==
    IF rq.image # <<>> THEN validate_image(rq.image[1]).data
    ELSE decode_preview(rq.image_preview)

\* The handler of slot r runs from line 65 in this step.
RunsRefresh(r) ==
    \/ pc[r] = "reading" /\ pc'[r] # "reading"
    \/ req'[r].seq # req[r].seq /\ pc'[r] # "reading"

\* C22: the vision context of a session changes only in a step in which a
\* request on that session, carrying image bytes, has them analyzed, and then
\* it becomes the context computed for that image as a whole; a request
\* without an image, the memory update, the return of a POST and every
\* request on another session leave it as it was.
C22_VisionContextFrame ==
    [][\A s \in SessionIds :
          LET before == get_context(store, s).persistent_vision
              after == get_context(store', s).persistent_vision
          IN  /\ after # before =>
                    \E r \in Slots :
                        /\ RunsRefresh(r)
                        /\ req'[r].session_id = s
                        /\ CarriedBytes(req'[r]).len > 0
                        /\ \E ok \in BOOLEAN :
                              after = analyze(process(CarriedBytes(req'[r])).image, ok)
              /\ \A r \in Slots :
                    (/\ RunsRefresh(r)
                     /\ \/ req'[r].session_id # s
                        \/ CarriedBytes(req'[r]).len = 0) => after = before]_vars

\* Image B replaced the context of a session that had a turn of history, and
\* the turn of the request that brought it was appended.
C22_Witness ==
    \E r \in Slots :
        /\ Normal(r)
        /\ req[r].seq = 2
        /\ req[r].image = FileB
        /\ Len(History(req[r].session_id)) = 4
        /\ get_context(store, req[r].session_id).persistent_vision = analyze_image("B")
        /\ req[r].prompt_data.tag = "PROMPT"
        /\ req[r].prompt_data.contents[2].text.scene = "a red car on a street"

\* C23: the step in which a request ends in an error response leaves the
\* session store as it was, the history and the vision context of every
\* session, whichever fault ended the request: validation, preprocessing,
\* the initialization of the vision engine or the save to durable storage.
C23_ErrorLeavesStoreUnchanged ==
    [][\A r \in Slots :
          (Completes(r) /\ out'[r].status_code # 200) =>
              /\ out'[r].fault \in {"validation", "preprocess", "engine_init", "persist"}
              /\ store' = store]_vars

====
